---------------------------- MODULE Spec2Model ----------------------------
(***************************************************************************)
(* Tender pipeline of scout-the-bid-finder: the record store (db/db.py),   *)
(* the repository wrappers and the three workflow nodes (main.py), and the *)
(* notifier channel (tools/TelegramTool.py).                               *)
(*                                                                         *)
(* Every store operation of db.py opens its own connection and commits,    *)
(* so each one is one atomic step.  An invocation (app.invoke) is a        *)
(* sequential program over these steps; its position is L[p].pc.           *)
(* Strings that the code inspects (dates) are sequences of one-character   *)
(* strings; strings it only compares (titles, states) are TLA+ strings.    *)
(***************************************************************************)
EXTENDS Integers, Sequences, FiniteSets, TLC

(***************************************************************************)
(* Bounds of the model                                                     *)
(***************************************************************************)
MaxRuns == 2
MaxFailures == 1
MaxInitWaiting == 9
MaxApiRows == 2

(***************************************************************************)
(* Program constants                                                       *)
(***************************************************************************)
BatchLimit == 8

None == "None"

Procs == {1, 2}
SeqProcs == {1}

(***************************************************************************)
(* Date strings                                                            *)
(***************************************************************************)
Digits == {"0", "1", "2", "3", "4", "5", "6", "7", "8", "9"}

DigitVal(c) ==
  CASE c = "0" -> 0 [] c = "1" -> 1 [] c = "2" -> 2 [] c = "3" -> 3
    [] c = "4" -> 4 [] c = "5" -> 5 [] c = "6" -> 6 [] c = "7" -> 7
    [] c = "8" -> 8 [] c = "9" -> 9

DigitChar(n) ==
  CASE n = 0 -> "0" [] n = 1 -> "1" [] n = 2 -> "2" [] n = 3 -> "3"
    [] n = 4 -> "4" [] n = 5 -> "5" [] n = 6 -> "6" [] n = 7 -> "7"
    [] n = 8 -> "8" [] n = 9 -> "9"

\* byte order of the characters that occur in the modelled date strings
CharCode(c) ==
  CASE c = " " -> 32 [] c = "-" -> 45 [] c = "/" -> 47
    [] c \in Digits -> 48 + DigitVal(c)
    [] OTHER -> 97

EmptyStr == << >>

\* strptime's %m : 1[0-2] | 0[1-9] | [1-9]
MonthField(f) ==
  \/ Len(f) = 2 /\ f[1] = "1" /\ f[2] \in {"0", "1", "2"}
  \/ Len(f) = 2 /\ f[1] = "0" /\ f[2] \in Digits \ {"0"}
  \/ Len(f) = 1 /\ f[1] \in Digits \ {"0"}

\* strptime's %d : 3[0-1] | [1-2]\d | 0[1-9] | [1-9] | " "[1-9]
DayField(f) ==
  \/ Len(f) = 2 /\ f[1] = "3" /\ f[2] \in {"0", "1"}
  \/ Len(f) = 2 /\ f[1] \in {"1", "2"} /\ f[2] \in Digits
  \/ Len(f) = 2 /\ f[1] \in {"0", " "} /\ f[2] \in Digits \ {"0"}
  \/ Len(f) = 1 /\ f[1] \in Digits \ {"0"}

FieldVal(f) ==
  IF Len(f) = 1 THEN DigitVal(f[1])
  ELSE (IF f[1] = " " THEN 0 ELSE 10 * DigitVal(f[1])) + DigitVal(f[2])

YearVal(s) ==
  1000 * DigitVal(s[1]) + 100 * DigitVal(s[2]) + 10 * DigitVal(s[3]) + DigitVal(s[4])

IsLeap(y) == (y % 4 = 0) /\ ((y % 100 # 0) \/ (y % 400 = 0))

DaysInMonth(y, m) ==
  IF m = 2 THEN (IF IsLeap(y) THEN 29 ELSE 28)
  ELSE IF m \in {4, 6, 9, 11} THEN 30 ELSE 31

\* datetime.strptime(s, '%Y-%m-%d') returns (True) or raises ValueError (False):
\* the whole string must match \d\d\d\d-%m-%d and name a calendar day.
StrptimeYmd(s) ==
  /\ Len(s) >= 8
  /\ Len(s) <= 10
  /\ \A i \in 1..4 : s[i] \in Digits
  /\ s[5] = "-"
  /\ \E k \in {7, 8} :
       /\ k < Len(s)
       /\ s[k] = "-"
       /\ MonthField(SubSeq(s, 6, k - 1))
       /\ DayField(SubSeq(s, k + 1, Len(s)))
       /\ YearVal(s) >= 1
       /\ FieldVal(SubSeq(s, k + 1, Len(s)))
            <= DaysInMonth(YearVal(s), FieldVal(SubSeq(s, 6, k - 1)))

is_valid_date(date_str) ==
  IF date_str = None \/ date_str = EmptyStr THEN FALSE
  ELSE StrptimeYmd(date_str)

\* text comparison of two stored strings (memcmp order), a < b
RECURSIVE StrLess(_, _)
StrLess(a, b) ==
  IF b = EmptyStr THEN FALSE
  ELSE IF a = EmptyStr THEN TRUE
  ELSE IF CharCode(Head(a)) # CharCode(Head(b))
       THEN CharCode(Head(a)) < CharCode(Head(b))
       ELSE StrLess(Tail(a), Tail(b))


(***************************************************************************)
(* Record store (db/db.py).  The store is the sequence of rows of table    *)
(* tenders in rowid order; column id is INTEGER PRIMARY KEY AUTOINCREMENT.  *)
(***************************************************************************)
States == {"waiting_for_filtering", "qualified", "unqualified", "notified"}

\* variants: the list also lets an unknown column through / also lets the
\* primary key through
WritableFields_open == {"title", "organization", "posted_date", "closing_date",
                        "location", "url", "source", "tender_content", "state",
                        "is_sent", "not_a_field"}

WritableFields_with_id == {"title", "organization", "posted_date", "closing_date",
                           "location", "url", "source", "tender_content", "state",
                           "is_sent", "id"}

WritableFields == {"title", "organization", "posted_date", "closing_date",
                   "location", "url", "source", "tender_content", "state", "is_sent"}

\* the columns of a row that the model keeps
RowFields == {"id", "title", "posted_date", "closing_date", "state", "is_sent"}

Max(S) == CHOOSE x \in S : \A y \in S : x >= y

\* AUTOINCREMENT: one more than the largest id the table has held
NextId(d) == IF d = << >> THEN 1 ELSE Max({d[i].id : i \in 1..Len(d)}) + 1

\* insert_tender names eight columns; id, state and is_sent get their defaults
\* variant: the default of is_sent is 1
NewRow_sent(tender, id) ==
  [id |-> id, title |-> tender.title, posted_date |-> tender.posted_date,
   closing_date |-> tender.closing_date,
   state |-> "waiting_for_filtering", is_sent |-> TRUE]

NewRow(tender, id) ==
  [id |-> id, title |-> tender.title, posted_date |-> tender.posted_date,
   closing_date |-> tender.closing_date,
   state |-> "waiting_for_filtering", is_sent |-> FALSE]

\* INSERT fails on title TEXT NOT NULL (sqlite3.IntegrityError)
InsertRaises(tender) == tender.title = None

insert_tender(d, tender) == Append(d, NewRow(tender, NextId(d)))

\* variant: the query compares the wrong date column
tender_exists_closing(d, title, posted_date) ==
  \E i \in 1..Len(d) : d[i].title = title /\ d[i].closing_date = posted_date

\* variant: the count is compared with 1, not 0
tender_exists_twice(d, title, posted_date) ==
  \E i, j \in 1..Len(d) :
    /\ i # j
    /\ d[i].title = title /\ d[i].posted_date = posted_date
    /\ d[j].title = title /\ d[j].posted_date = posted_date

tender_exists(d, title, posted_date) ==
  \E i \in 1..Len(d) : d[i].title = title /\ d[i].posted_date = posted_date

IdsByState(d, state) == {d[i].id : i \in {j \in 1..Len(d) : d[j].state = state}}

count_tenders_by_state(d, state) == Cardinality(IdsByState(d, state))

Min(S) == CHOOSE x \in S : \A y \in S : x <= y


RECURSIVE FirstN(_, _)
FirstN(S, n) ==
  IF n = 0 \/ S = {} THEN << >> ELSE <<Min(S)>> \o FirstN(S \ {Min(S)}, n - 1)

\* SELECT * FROM tenders WHERE state = ? LIMIT ?: the table has no index, so
\* SQLite scans it in rowid order and LIMIT keeps the first rows of the scan
\* variant: the query forgets the state condition
get_tenders_by_state_any(d, state, limit) ==
  FirstN({d[i].id : i \in 1..Len(d)}, limit)

\* variant: the query has no LIMIT
get_tenders_by_state_nolimit(d, state, limit) ==
  FirstN(IdsByState(d, state), Cardinality(IdsByState(d, state)))

get_tenders_by_state(d, state, limit) == FirstN(IdsByState(d, state), limit)

\* lines 27 and 36: title TEXT NOT NULL and CHECK(state IN (...)); a row that
\* would break one makes the statement fail (sqlite3.IntegrityError), a NULL
\* state passes the CHECK
TableRejects(field, value) ==
  \/ field = "title" /\ value = None
  \/ field = "state" /\ value \notin States \cup {None}

\* UPDATE tenders SET field = ? WHERE id = ?
\* variant: the statement has no WHERE clause
update_tender_field_nowhere(d, tender_id, field, value) ==
  IF field \notin WritableFields
  THEN [raises |-> TRUE, affected |-> FALSE, db |-> d]
  ELSE IF d = << >>
  THEN [raises |-> FALSE, affected |-> FALSE, db |-> d]
  ELSE IF TableRejects(field, value)
  THEN [raises |-> TRUE, affected |-> FALSE, db |-> d]
  ELSE [raises |-> FALSE, affected |-> TRUE,
        db |-> IF field \in RowFields
               THEN [i \in 1..Len(d) |->
                       [f \in RowFields |-> IF f = field THEN value ELSE d[i][f]]]
               ELSE d]

update_tender_field(d, tender_id, field, value) ==
  IF field \notin WritableFields
  THEN [raises |-> TRUE, affected |-> FALSE, db |-> d]
  ELSE IF \A i \in 1..Len(d) : d[i].id # tender_id
  THEN [raises |-> FALSE, affected |-> FALSE, db |-> d]
  ELSE IF TableRejects(field, value)
  THEN [raises |-> TRUE, affected |-> FALSE, db |-> d]
  ELSE [raises |-> FALSE, affected |-> TRUE,
        db |-> IF field \in RowFields
               THEN [i \in 1..Len(d) |->
                       IF d[i].id = tender_id
                       THEN [f \in RowFields |-> IF f = field THEN value ELSE d[i][f]]
                       ELSE d[i]]
               ELSE d]

IdsByStateAndSent(d, state, is_sent) ==
  {d[i].id : i \in {j \in 1..Len(d) : d[j].state = state /\ d[j].is_sent = is_sent}}

\* the row with a given id
RowOf(d, id) == d[CHOOSE i \in 1..Len(d) : d[i].id = id]

\* ORDER BY posted_date DESC: every order of the rows that is descending by
\* posted_date (rows with equal dates in any order)
RECURSIVE DescSeqs(_, _)
DescSeqs(d, S) ==
  IF S = {} THEN {<< >>}
  ELSE UNION {{<<x>> \o r : r \in DescSeqs(d, S \ {x})} :
              x \in {y \in S : \A z \in S : ~StrLess(RowOf(d, y).posted_date,
                                                     RowOf(d, z).posted_date)}}

\* variant: the query forgets the is_sent condition
get_tenders_by_state_and_sent_nofilter(d, state, is_sent) ==
  DescSeqs(d, IdsByState(d, state))

\* variant: the query has no ORDER BY and the rows come in rowid order
get_tenders_by_state_and_sent_rowid(d, state, is_sent) ==
  {FirstN(IdsByStateAndSent(d, state, is_sent),
          Cardinality(IdsByStateAndSent(d, state, is_sent)))}

get_tenders_by_state_and_sent(d, state, is_sent) ==
  DescSeqs(d, IdsByStateAndSent(d, state, is_sent))

(***************************************************************************)
(* Inputs                                                                  *)
(***************************************************************************)
Date_2024_01_10 == <<"2", "0", "2", "4", "-", "0", "1", "-", "1", "0">>
Date_2024_1_5 == <<"2", "0", "2", "4", "-", "1", "-", "5">>
Date_slashes == <<"2", "0", "2", "4", "/", "0", "1", "/", "0", "5">>
Date_tomorrow == <<"t", "o", "m", "o", "r", "r", "o", "w">>
Date_2023_02_29 == <<"2", "0", "2", "3", "-", "0", "2", "-", "2", "9">>

\* 2024-01-dd
DateOfDay(dd) == <<"2", "0", "2", "4", "-", "0", "1", "-",
                   DigitChar(dd \div 10), DigitChar(dd % 10)>>

Cand(t, p, c) == [title |-> t, posted_date |-> p, closing_date |-> c]

\* the lists a source connector may report
ScrapedLists ==
  { <<Cand("Build ERP", Date_2024_01_10, Date_2024_1_5),
      Cand("Build ERP", Date_2024_01_10, Date_slashes)>>,
    <<Cand("Road works", Date_tomorrow, None),
      Cand("Road works", None, Date_2023_02_29)>>,
    <<Cand(None, Date_2024_01_10, EmptyStr),
      Cand("Fibre link", Date_2024_01_10, Date_2024_01_10)>> }

\* a store left by earlier invocations: w records still waiting
PrePop(w) ==
  [i \in 1..w |-> [id |-> i, title |-> "Archive", posted_date |-> DateOfDay(i),
                   closing_date |-> EmptyStr,
                   state |-> "waiting_for_filtering", is_sent |-> FALSE]]

InitWaiting == {0, MaxInitWaiting}

\* what the classifier may return for a batch: nothing, or one record of the
\* batch together with an id that was not submitted
ForeignIds(d, batch) == (1..NextId(d)) \ batch

ClassifierOutputs(d, batch) ==
  LET f == Min(ForeignIds(d, batch))
  IN  IF batch = {} THEN {{}, {f}} ELSE {{}, {Min(batch), f}}

(***************************************************************************)
(* State                                                                   *)
(***************************************************************************)
VARIABLES
  db,            \* table tenders
  L,             \* per invocation: position and local variables of the nodes
  runs,          \* invocations started so far
  storeFails,    \* store operations that raised so far
  chanFails,     \* channel sends that failed so far (one budget with storeFails)
  delivered,     \* id -> number of messages the channel delivered for it
  markFailed,    \* id -> number of failed is_sent writes after a delivery
  newQualified,  \* ids that became qualified since the last dispatcher run ended
  prevUnsent,    \* the last dispatcher run: ids it left qualified and unsent,
                 \* whether its fetch returned, ids whose send failed
  dispatcherRuns \* dispatcher runs completed so far

vars == <<db, L, runs, storeFails, chanFails, delivered, markFailed,
          newQualified, prevUnsent, dispatcherRuns>>

\* the credentials a process may find in its environment: whether
\* TELEGRAM_BOT_TOKEN and TELEGRAM_CHAT_ID are set
Envs == [token : BOOLEAN, chat_id : BOOLEAN]

Configured == [token |-> TRUE, chat_id |-> TRUE]

\* local state of an invocation that has not started
Fresh ==
  [pc |-> "idle",
   env |-> Configured,     \* getenv of the two credentials
   call |-> [op |-> "none", id |-> 0, field |-> "", value |-> "",
             raises |-> FALSE, affected |-> FALSE],  \* last direct call of a DB method
   cands |-> << >>,        \* process_scraped_tenders: tenders still to process
   batch |-> << >>,        \* tender_filter_node: waiting_tenders
   qualified |-> {},       \* tender_filter_node: ids in qualified_tenders.tenders
   todo |-> << >>,         \* tender_filter_node: rest of the for loop
   notify |-> << >>,       \* _send_tender_notifications: rest of the for loop
   stageLog |-> << >>,     \* nodes run so far, in order
   W0 |-> 0,               \* waiting records when the loop was entered
   rounds |-> 0,           \* classifier invocations that returned
   writeFails |-> 0,       \* failed state writes in the loop
   submitted |-> << >>,    \* id -> times it was handed to the classifier
   writeFailed |-> << >>,  \* id -> failed writes of its new state
   lastCount |-> -1,       \* last value count_waiting_tenders returned
   countRaised |-> FALSE,  \* whether that value was the error fallback
   llmFailed |-> FALSE,    \* the classifier invocation raised
   storeErr |-> FALSE,     \* a store operation raised inside the loop
   fetched |-> << >>,      \* what the dispatcher fetched
   attempted |-> << >>,    \* ids handed to the channel, in order
   sendFailed |-> {},      \* ids whose send failed in this dispatcher run
   skipped |-> 0,          \* candidates skipped as already stored
   ingestErr |-> "none",   \* what failed in the scraper node, if anything
   failsAtStart |-> 0,     \* store and channel failures before this invocation
   abandoned |-> << >>,    \* tenders of the list after the one that raised
   checkLen |-> 0,         \* rows in the table at the last tender_exists query
   inserted |-> << >>,     \* records this invocation inserted: id and checkLen
   dbAtFetch |-> << >>,    \* the table when the current batch was fetched
   roundFailed |-> {},     \* ids of the batch whose state write failed
   written |-> << >>,      \* id -> state written by this invocation
   dispNo |-> 0,           \* dispatcher runs completed before this one
   newAtFetch |-> {},      \* newQualified when the dispatcher fetched
   unsentBefore |-> [ids |-> {}, fetchOk |-> FALSE, failed |-> {}]]    \* prevUnsent when the dispatcher fetched

Waiting(d) == IdsByState(d, "waiting_for_filtering")

QualifiedUnsent(d) == IdsByStateAndSent(d, "qualified", FALSE)

InitHistory ==
  /\ runs = 0
  /\ storeFails = 0
  /\ chanFails = 0
  /\ delivered = << >>
  /\ markFailed = << >>
  /\ newQualified = {}
  /\ prevUnsent = [ids |-> {}, fetchOk |-> FALSE, failed |-> {}]
  /\ dispatcherRuns = 0

Init ==
  /\ db \in {PrePop(w) : w \in InitWaiting}
  /\ L = [p \in Procs |-> Fresh]
  /\ InitHistory

\* the same, in any environment
InitEnv ==
  /\ db \in {PrePop(w) : w \in InitWaiting}
  /\ \E e \in Envs : L = [p \in Procs |-> [Fresh EXCEPT !.env = e]]
  /\ InitHistory

Count(f, id) == IF id \in DOMAIN f THEN f[id] ELSE 0

Put(f, id, v) == [x \in (DOMAIN f) \cup {id} |-> IF x = id THEN v ELSE f[x]]

BumpAll(f, S) ==
  [x \in (DOMAIN f) \cup S |-> Count(f, x) + (IF x \in S THEN 1 ELSE 0)]

Bump(f, id) == [x \in (DOMAIN f) \cup {id} |-> IF x = id THEN Count(f, id) + 1 ELSE f[x]]

StoreMayFail == storeFails + chanFails < MaxFailures

ChannelMayFail == storeFails + chanFails < MaxFailures

(***************************************************************************)
(* Orchestrator (main.py create_workflow, __main__)                        *)
(***************************************************************************)
\* create_workflow, lines 346-348: without the bot token it raises and
\* __main__ never reaches app.invoke
AfterCreateWorkflow(env) == IF env.token THEN "scraper" ELSE "config_error"

\* python main.py: create_workflow(), then app.invoke(initial_state), whose
\* entry point is the scraper node
Start(p) ==
  /\ L[p].pc \in {"idle", "done", "aborted", "config_error"}
  /\ runs < MaxRuns
  /\ runs' = runs + 1
  /\ L' = [L EXCEPT ![p] = [Fresh EXCEPT !.env = L[p].env,
                                        !.failsAtStart = storeFails + chanFails,
                                        !.pc = AfterCreateWorkflow(L[p].env)]]
  /\ UNCHANGED <<db, storeFails, chanFails, delivered, markFailed,
                 newQualified, prevUnsent, dispatcherRuns>>

\* edge scraper -> tender_filter
EnterFilter(l, d) ==
  [l EXCEPT !.pc = "tender_filter", !.cands = << >>,
            !.W0 = Cardinality(Waiting(d))]

(***************************************************************************)
(* Ingestion Gate (scraper_node, process_scraped_tenders)                  *)
(***************************************************************************)
\* lines 227-228 and 252: the except clause of scraper_node prints the error
\* and the node returns, so the graph follows the edge to tender_filter
\* variant: the error leaves the node
AfterIngestFailure_abort == "aborted"

AfterIngestFailure == "tender_filter"

\* the connector failed, or process_scraped_tenders raised at its current tender
IngestFailed(l, d, what) ==
  [EnterFilter(l, d) EXCEPT !.ingestErr = what, !.pc = AfterIngestFailure,
                            !.abandoned = IF l.cands = << >> THEN << >>
                                          ELSE Tail(l.cands)]

\* lines 258-263: an invalid date is replaced by ''
\* variant: only closing_date is normalised before the existence check
Normalise_closing(tender) ==
  [tender EXCEPT
     !.closing_date = IF is_valid_date(tender.closing_date) THEN @ ELSE EmptyStr]

Normalise(tender) ==
  [tender EXCEPT
     !.posted_date = IF is_valid_date(tender.posted_date) THEN @ ELSE EmptyStr,
     !.closing_date = IF is_valid_date(tender.closing_date) THEN @ ELSE EmptyStr]

\* GlobalTendersScraper().run({}) fails (raises or success = False), or
\* reports a list; the for loop then starts
Scrape(p) ==
  /\ L[p].pc = "scraper"
  /\ \/ L' = [L EXCEPT ![p] = IngestFailed([@ EXCEPT !.stageLog = Append(@, "scraper")],
                                            db, "connector")]
     \/ \E lst \in ScrapedLists :
          L' = [L EXCEPT ![p] = [@ EXCEPT !.stageLog = Append(@, "scraper"),
                                          !.cands = lst, !.pc = "ingest_check"]]
  /\ UNCHANGED <<db, runs, storeFails, chanFails, delivered, markFailed,
                 newQualified, prevUnsent, dispatcherRuns>>

\* after one tender of the for loop: the next one, or the node returns
NextCandidate(l, d) ==
  IF Len(l.cands) > 1
  THEN [l EXCEPT !.cands = Tail(@), !.pc = "ingest_check"]
  ELSE EnterFilter(l, d)

\* lines 258-265: normalise the dates of the tender, then repo.tender_exists
IngestCheck(p) ==
  /\ L[p].pc = "ingest_check"
  /\ LET tender == Normalise(Head(L[p].cands))
         l == [L[p] EXCEPT !.cands = <<tender>> \o Tail(@)]
     IN  \/ \* the query raises: caught by scraper_node, the list is abandoned
            /\ StoreMayFail
            /\ storeFails' = storeFails + 1
            /\ L' = [L EXCEPT ![p] = IngestFailed(l, db, "tender_exists")]
         \/ /\ storeFails' = storeFails
            /\ L' = [L EXCEPT ![p] =
                       IF tender_exists(db, tender.title, tender.posted_date)
                       THEN NextCandidate([l EXCEPT !.skipped = @ + 1,
                                                    !.checkLen = Len(db)], db)
                       ELSE [l EXCEPT !.pc = "ingest_insert",
                                      !.checkLen = Len(db)]]
  /\ UNCHANGED <<db, runs, chanFails, delivered, markFailed,
                 newQualified, prevUnsent, dispatcherRuns>>

\* lines 266-267: repo.insert_new_tender(tender)
IngestInsert(p) ==
  /\ L[p].pc = "ingest_insert"
  /\ LET tender == Head(L[p].cands)
     IN  \/ \* the insert raises: caught by scraper_node, the list is abandoned
            /\ InsertRaises(tender) \/ StoreMayFail
            /\ storeFails' = IF InsertRaises(tender) THEN storeFails ELSE storeFails + 1
            /\ db' = db
            /\ L' = [L EXCEPT ![p] = IngestFailed(@, db, "insert_new_tender")]
         \/ /\ ~InsertRaises(tender)
            /\ storeFails' = storeFails
            /\ db' = insert_tender(db, tender)
            /\ L' = [L EXCEPT ![p] =
                       NextCandidate([@ EXCEPT !.inserted =
                                        Append(@, [id |-> NextId(db),
                                                   checkLen |-> L[p].checkLen])], db')]
  /\ UNCHANGED <<runs, chanFails, delivered, markFailed,
                 newQualified, prevUnsent, dispatcherRuns>>

(***************************************************************************)
(* Batch Classification Loop (tender_filter_node, should_continue_filtering)*)
(***************************************************************************)
\* repo.fetch_waiting_tenders / db.get_tenders_by_state: an error is caught
\* and the result is []
FetchFallback == << >>

\* repo.count_waiting_tenders / db.count_tenders_by_state: an error is caught
\* and the result is 0
CountFallback == 0

\* the conditional edge after tender_filter; END is mapped to the notifier
\* variant: the loop never ends
should_continue_filtering_always(remaining_tenders) ==
  IF remaining_tenders >= 0 THEN "tender_filter" ELSE "notifier"

\* variant: the loop ends one record early
should_continue_filtering_early(remaining_tenders) ==
  IF remaining_tenders > 1 THEN "tender_filter" ELSE "notifier"

should_continue_filtering(remaining_tenders) ==
  IF remaining_tenders > 0 THEN "tender_filter" ELSE "notifier"

\* llm_with_structure.invoke raises inside the node: nothing catches it, so
\* app.invoke raises and the invocation is over
\* variants: the failure is caught and the loop goes on / the loop ends
AfterClassifierFailure_continue == "should_continue"

AfterClassifierFailure_dispatch == "notifier"

AfterClassifierFailure == "aborted"

\* lines 194-195
\* variant: a record that was not returned is left as it is
new_state_leaves(tender_id, qualified_ids) ==
  IF \E qt \in qualified_ids : qt = tender_id THEN "qualified" ELSE "waiting_for_filtering"

new_state(tender_id, qualified_ids) ==
  IF \E qt \in qualified_ids : qt = tender_id THEN "qualified" ELSE "unqualified"

\* line 193: the for loop runs over waiting_tenders
\* variant: the loop also visits every returned id
WriteTargets_returned(batch, qualified_ids) ==
  batch \o FirstN(qualified_ids \ {batch[i] : i \in 1..Len(batch)},
                  Cardinality(qualified_ids))

WriteTargets(batch, qualified_ids) == batch

LogNode(log, node) ==
  IF Len(log) > 0 /\ log[Len(log)] = node THEN log ELSE Append(log, node)

\* lines 174-176: an empty batch ends the node, and the graph evaluates the
\* conditional edge
\* variant: the test is missing
AfterFetch_always(batch) == "llm_invoke"

AfterFetch(batch) == IF batch = << >> THEN "should_continue" ELSE "llm_invoke"

\* lines 171-176: fetch the batch; an empty batch ends the node
FilterFetch(p) ==
  /\ L[p].pc = "tender_filter"
  /\ \/ /\ StoreMayFail
        /\ storeFails' = storeFails + 1
        /\ L' = [L EXCEPT ![p] = [@ EXCEPT !.stageLog = LogNode(@, "tender_filter"),
                                           !.storeErr = TRUE,
                                           !.batch = FetchFallback,
                                           !.dbAtFetch = db,
                                           !.pc = AfterFetch(FetchFallback)]]
     \/ /\ storeFails' = storeFails
        /\ LET b == get_tenders_by_state(db, "waiting_for_filtering", BatchLimit)
           IN
             L' = [L EXCEPT ![p] = [@ EXCEPT !.stageLog = LogNode(@, "tender_filter"),
                                             !.batch = b,
                                             !.dbAtFetch = db,
                                             !.pc = AfterFetch(b)]]
  /\ UNCHANGED <<db, runs, chanFails, delivered, markFailed,
                 newQualified, prevUnsent, dispatcherRuns>>

Range(seq) == {seq[i] : i \in 1..Len(seq)}

\* line 190: the classifier raises, or returns a list of tenders
LLMInvoke(p) ==
  /\ L[p].pc = "llm_invoke"
  /\ \/ L' = [L EXCEPT ![p] = [@ EXCEPT !.llmFailed = TRUE,
                                        !.submitted = BumpAll(@, Range(L[p].batch)),
                                        !.pc = AfterClassifierFailure]]
     \/ \E ids \in ClassifierOutputs(db, Range(L[p].batch)) :
          L' = [L EXCEPT ![p] = [@ EXCEPT !.qualified = ids,
                                          !.submitted = BumpAll(@, Range(L[p].batch)),
                                          !.todo = WriteTargets(L[p].batch, ids),
                                          !.roundFailed = {},
                                          !.rounds = @ + 1,
                                          !.pc = "filter_write"]]
  /\ UNCHANGED <<db, runs, storeFails, chanFails, delivered, markFailed,
                 newQualified, prevUnsent, dispatcherRuns>>

\* line 88: the column and the value update_tender_state hands to
\* update_tender_field
\* variant: the classification is written to the sent flag
StateWrite_sent(st) == [field |-> "is_sent", value |-> st = "qualified"]

StateWrite(st) == [field |-> "state", value |-> st]

\* lines 193-197, one iteration: repo.update_tender_state catches a store
\* error and the loop goes on
FilterWrite(p) ==
  /\ L[p].pc = "filter_write"
  /\ LET tender_id == Head(L[p].todo)
         st == new_state(tender_id, L[p].qualified)
         pcNext == IF Len(L[p].todo) > 1 THEN "filter_write" ELSE "should_continue"
     IN  \/ /\ StoreMayFail
            /\ storeFails' = storeFails + 1
            /\ db' = db
            /\ newQualified' = newQualified
            /\ L' = [L EXCEPT ![p] = [@ EXCEPT !.todo = Tail(@),
                                               !.writeFails = @ + 1,
                                               !.writeFailed = Bump(@, tender_id),
                                               !.roundFailed = @ \cup {tender_id},
                                               !.storeErr = TRUE,
                                               !.pc = pcNext]]
         \/ /\ storeFails' = storeFails
            /\ LET res == update_tender_field(db, tender_id, StateWrite(st).field,
                                              StateWrite(st).value)
               IN  /\ db' = res.db
                   /\ newQualified' = IF res.affected /\ st = "qualified"
                                      THEN newQualified \cup {tender_id}
                                      ELSE newQualified
                   /\ L' = [L EXCEPT ![p] = [@ EXCEPT !.todo = Tail(@),
                                                      !.written = IF res.affected
                                                                  THEN Put(@, tender_id, st)
                                                                  ELSE @,
                                                      !.pc = pcNext]]
  /\ UNCHANGED <<runs, chanFails, delivered, markFailed, prevUnsent, dispatcherRuns>>

\* lines 202-207
ShouldContinue(p) ==
  /\ L[p].pc = "should_continue"
  /\ \/ /\ StoreMayFail
        /\ storeFails' = storeFails + 1
        /\ L' = [L EXCEPT ![p] = [@ EXCEPT !.lastCount = CountFallback,
                                           !.countRaised = TRUE,
                                           !.storeErr = TRUE,
                                           !.pc = should_continue_filtering(CountFallback)]]
     \/ /\ storeFails' = storeFails
        /\ LET n == count_tenders_by_state(db, "waiting_for_filtering")
           IN  L' = [L EXCEPT ![p] = [@ EXCEPT !.lastCount = n,
                                               !.countRaised = FALSE,
                                               !.pc = should_continue_filtering(n)]]
  /\ UNCHANGED <<db, runs, chanFails, delivered, markFailed,
                 newQualified, prevUnsent, dispatcherRuns>>

(***************************************************************************)
(* Notification Dispatcher (notification_node, _send_tender_notifications) *)
(***************************************************************************)
SendOutcomes == {"success", "failure", "raise"}

\* lines 326-335: where the for loop goes after telegram_tool.run
\* variant: result['success'] is not looked at
AfterSend_unchecked(outcome) == "notify_mark"

AfterSend(outcome) ==
  IF outcome = "success" THEN "notify_mark" ELSE "next_tender"

\* line 146: the value mark_tender_as_sent writes to is_sent
\* variant: the flag is written as in db.py's __main__
SentValue_false == FALSE

SentValue == TRUE

\* line 146: the column and the value mark_tender_as_sent hands to
\* update_tender_field
\* variant: the record is marked through its state
MarkWrite_notified == [field |-> "state", value |-> "notified"]

MarkWrite == [field |-> "is_sent", value |-> SentValue]

\* the dispatcher run is over
EndDispatch(d, fetchOk, failed) ==
  /\ prevUnsent' = [ids |-> QualifiedUnsent(d), fetchOk |-> fetchOk,
                    failed |-> failed]
  /\ newQualified' = {}
  /\ dispatcherRuns' = IF dispatcherRuns < MaxRuns THEN dispatcherRuns + 1
                       ELSE dispatcherRuns

\* lines 310-312 and 301-304: without the chat id _send_tender_notifications
\* raises before its loop; notification_node catches that and returns
AfterNotifyFetch(env, lst) ==
  IF lst = << >> THEN "done"
  ELSE IF env.chat_id THEN "notify_send" ELSE "done"

\* lines 289-299: fetch the qualified, unsent tenders
NotifyFetch(p) ==
  /\ L[p].pc = "notifier"
  /\ \/ /\ StoreMayFail
        /\ storeFails' = storeFails + 1
        /\ L' = [L EXCEPT ![p] = [@ EXCEPT !.stageLog = Append(@, "notifier"),
                                           !.dispNo = dispatcherRuns,
                                           !.newAtFetch = newQualified,
                                           !.unsentBefore = prevUnsent,
                                           !.pc = "done"]]
        /\ EndDispatch(db, FALSE, {})
     \/ /\ storeFails' = storeFails
        /\ \E lst \in get_tenders_by_state_and_sent(db, "qualified", FALSE) :
             L' = [L EXCEPT ![p] = [@ EXCEPT !.stageLog = Append(@, "notifier"),
                                             !.dispNo = dispatcherRuns,
                                             !.newAtFetch = newQualified,
                                             !.unsentBefore = prevUnsent,
                                             !.fetched = lst,
                                             !.notify = lst,
                                             !.pc = AfterNotifyFetch(L[p].env, lst)]]
        /\ IF QualifiedUnsent(db) = {} \/ ~L[p].env.chat_id
           THEN EndDispatch(db, TRUE, {})
           ELSE UNCHANGED <<prevUnsent, newQualified, dispatcherRuns>>
  /\ UNCHANGED <<db, runs, chanFails, delivered, markFailed>>

\* lines 315-324 and 331-335: format the message and hand it to the channel
NotifySend(p) ==
  /\ L[p].pc = "notify_send"
  /\ LET tender_id == Head(L[p].notify)
     IN  \E outcome \in SendOutcomes :
           /\ outcome # "success" => ChannelMayFail
           /\ chanFails' = IF outcome = "success" THEN chanFails ELSE chanFails + 1
           /\ delivered' = IF outcome = "success" THEN Bump(delivered, tender_id)
                           ELSE delivered
           /\ IF AfterSend(outcome) = "notify_mark"
              THEN /\ L' = [L EXCEPT ![p] = [@ EXCEPT !.attempted = Append(@, tender_id),
                                                      !.sendFailed = IF outcome = "success"
                                                                     THEN @
                                                                     ELSE @ \cup {tender_id},
                                                      !.pc = "notify_mark"]]
                   /\ UNCHANGED <<prevUnsent, newQualified, dispatcherRuns>>
              ELSE IF Len(L[p].notify) > 1
              THEN /\ L' = [L EXCEPT ![p] = [@ EXCEPT !.attempted = Append(@, tender_id),
                                                      !.sendFailed = @ \cup {tender_id},
                                                      !.notify = Tail(@),
                                                      !.pc = "notify_send"]]
                   /\ UNCHANGED <<prevUnsent, newQualified, dispatcherRuns>>
              ELSE /\ L' = [L EXCEPT ![p] = [@ EXCEPT !.attempted = Append(@, tender_id),
                                                      !.sendFailed = @ \cup {tender_id},
                                                      !.notify = << >>,
                                                      !.pc = "done"]]
                   /\ EndDispatch(db, TRUE, L[p].sendFailed \cup {tender_id})
  /\ UNCHANGED <<db, runs, storeFails, markFailed>>

\* lines 326-330: repo.mark_tender_as_sent catches a store error
NotifyMark(p) ==
  /\ L[p].pc = "notify_mark"
  /\ LET tender_id == Head(L[p].notify)
     IN  /\ \/ /\ StoreMayFail
               /\ storeFails' = storeFails + 1
               /\ markFailed' = Bump(markFailed, tender_id)
               /\ db' = db
            \/ /\ storeFails' = storeFails
               /\ markFailed' = markFailed
               /\ db' = update_tender_field(db, tender_id, MarkWrite.field,
                                            MarkWrite.value).db
         /\ IF Len(L[p].notify) > 1
            THEN /\ L' = [L EXCEPT ![p] = [@ EXCEPT !.notify = Tail(@),
                                                    !.pc = "notify_send"]]
                 /\ UNCHANGED <<prevUnsent, newQualified, dispatcherRuns>>
            ELSE /\ L' = [L EXCEPT ![p] = [@ EXCEPT !.notify = << >>, !.pc = "done"]]
                 /\ EndDispatch(db', TRUE, L[p].sendFailed)
  /\ UNCHANGED <<runs, chanFails, delivered>>

(***************************************************************************)
(* Specification: invocations run one after another                        *)
(***************************************************************************)
Next ==
  \E p \in SeqProcs :
    \/ Start(p)
    \/ Scrape(p)
    \/ IngestCheck(p)
    \/ IngestInsert(p)
    \/ FilterFetch(p)
    \/ LLMInvoke(p)
    \/ FilterWrite(p)
    \/ ShouldContinue(p)
    \/ NotifyFetch(p)
    \/ NotifySend(p)
    \/ NotifyMark(p)

Spec == Init /\ [][Next]_vars

\* the same program started in any environment
SpecEnv == InitEnv /\ [][Next]_vars

(***************************************************************************)
(* Specification: python main.py is run again and again, each invocation   *)
(* after the one before has ended.  The classifier answers every call; the *)
(* store and the channel may fail in any invocation, at most MaxFailures   *)
(* times in each.  The counters of failures and deliveries are those of    *)
(* the current invocation.                                                 *)
(***************************************************************************)
\* the first invocation finds the empty table of create_table
InitLive ==
  /\ db = << >>
  /\ L = [p \in Procs |-> Fresh]
  /\ InitHistory

\* python main.py once more
StartAgain(p) ==
  /\ L[p].pc \in {"idle", "done", "aborted"}
  /\ runs' = IF runs < MaxRuns THEN runs + 1 ELSE runs
  /\ L' = [L EXCEPT ![p] = [Fresh EXCEPT !.env = L[p].env,
                                        !.pc = AfterCreateWorkflow(L[p].env)]]
  /\ storeFails' = 0
  /\ chanFails' = 0
  /\ delivered' = << >>
  /\ markFailed' = << >>
  /\ UNCHANGED <<db, newQualified, prevUnsent, dispatcherRuns>>

\* llm.invoke returns
ClassifierAnswers(p) == ~L'[p].llmFailed

NextLive ==
  \E p \in SeqProcs :
    \/ StartAgain(p)
    \/ Scrape(p)
    \/ IngestCheck(p)
    \/ IngestInsert(p)
    \/ FilterFetch(p)
    \/ LLMInvoke(p) /\ ClassifierAnswers(p)
    \/ FilterWrite(p)
    \/ ShouldContinue(p)
    \/ NotifyFetch(p)
    \/ NotifySend(p)
    \/ NotifyMark(p)

\* every step of the sequential program is taken, and the scheduler keeps
\* starting the program
SpecLive == InitLive /\ [][NextLive]_vars /\ WF_vars(NextLive)

(***************************************************************************)
(* Specification: two invocations that overlap, one per process.  Every    *)
(* store operation is one step, and the steps of the two interleave in any *)
(* order.                                                                  *)
(***************************************************************************)
\* the invocations start on the table that create_table leaves
InitConc ==
  /\ db = << >>
  /\ L = [p \in Procs |-> Fresh]
  /\ InitHistory

\* the store and the channel answer every call
NoFailure == storeFails' = storeFails /\ chanFails' = chanFails

NextConc ==
  \E p \in Procs :
    \/ Start(p) /\ L[p].pc = "idle"
    \/ Scrape(p)
    \/ IngestCheck(p) /\ NoFailure
    \/ IngestInsert(p) /\ NoFailure
    \/ FilterFetch(p) /\ NoFailure
    \/ LLMInvoke(p)
    \/ FilterWrite(p) /\ NoFailure
    \/ ShouldContinue(p) /\ NoFailure
    \/ NotifyFetch(p) /\ NoFailure
    \/ NotifySend(p) /\ NoFailure
    \/ NotifyMark(p) /\ NoFailure

SpecConc == InitConc /\ [][NextConc]_vars

(***************************************************************************)
(* Specification: a client of class DB calls its writing methods with any  *)
(* arguments                                                               *)
(***************************************************************************)
\* the tenders a client may hand to insert_tender
ApiTenders == {Cand("Build ERP", Date_2024_01_10, EmptyStr),
               Cand(None, Date_2024_01_10, EmptyStr)}

\* the ids a client may name: those of the table, 0 and the next free one
ApiIds(d) == 0..NextId(d)

\* the (field, value) pairs a client may hand to update_tender_field
ApiWrites == { <<"state", "qualified">>, <<"state", "waiting_for_filtering">>,
               <<"is_sent", TRUE>>, <<"is_sent", FALSE>>, <<"url", "u">>,
               <<"not_a_field", "x">>, <<"id", 7>>, <<"created_at", "now">>,
               <<"state", "archived">>, <<"title", None>> }

InitApi ==
  /\ db \in {PrePop(w) : w \in 0..1}
  /\ L = [p \in Procs |-> Fresh]
  /\ InitHistory

\* DB().update_tender_field(tender_id, field, value); a raise reaches the caller
UpdateField(p) ==
  /\ \E tender_id \in ApiIds(db), fv \in ApiWrites :
       LET res == update_tender_field(db, tender_id, fv[1], fv[2])
       IN  /\ db' = res.db
           /\ L' = [L EXCEPT ![p] = [@ EXCEPT !.call =
                      [op |-> "update_tender_field", id |-> tender_id,
                       field |-> fv[1], value |-> fv[2],
                       raises |-> res.raises, affected |-> res.affected]]]
  /\ UNCHANGED <<runs, storeFails, chanFails, delivered, markFailed,
                 newQualified, prevUnsent, dispatcherRuns>>

\* DB().insert_tender(tender); a raise reaches the caller
InsertTender(p) ==
  /\ Len(db) < MaxApiRows
  /\ \E tender \in ApiTenders :
       /\ db' = IF InsertRaises(tender) THEN db ELSE insert_tender(db, tender)
       /\ L' = [L EXCEPT ![p] = [@ EXCEPT !.call =
                  [op |-> "insert_tender", id |-> 0, field |-> "", value |-> "",
                   raises |-> InsertRaises(tender), affected |-> ~InsertRaises(tender)]]]
  /\ UNCHANGED <<runs, storeFails, chanFails, delivered, markFailed,
                 newQualified, prevUnsent, dispatcherRuns>>

NextApi ==
  \E p \in SeqProcs :
    \/ UpdateField(p)
    \/ InsertTender(p)

SpecApi == InitApi /\ [][NextApi]_vars

(***************************************************************************)
(* Specification: the pipeline and the script of db.py (python db/db.py),  *)
(* run one after another on a table that holds record 61                   *)
(***************************************************************************)
\* db.py line 208: the id and the value the script hands to update_tender_field
ScriptTenderId == 61

ScriptSentValue == FALSE

\* 2024-mm-dd
DateOfMonthDay(mm, dd) ==
  <<"2", "0", "2", "4", "-", DigitChar(mm \div 10), DigitChar(mm % 10), "-",
    DigitChar(dd \div 10), DigitChar(dd % 10)>>

\* a table left by earlier invocations: records 1..61, all qualified and sent
Archive ==
  [i \in 1..ScriptTenderId |->
     [id |-> i, title |-> "Archive",
      posted_date |-> DateOfMonthDay(((i - 1) \div 28) + 1, ((i - 1) % 28) + 1),
      closing_date |-> EmptyStr, state |-> "qualified", is_sent |-> TRUE]]

InitScript ==
  /\ db = Archive
  /\ L = [p \in Procs |-> Fresh]
  /\ InitHistory

\* db.py lines 206-208: DB(), then print(db.update_tender_field(61, "is_sent", False))
DbMain(p) ==
  /\ L[p].pc \in {"idle", "done", "aborted", "config_error"}
  /\ LET res == update_tender_field(db, ScriptTenderId, "is_sent", ScriptSentValue)
     IN  /\ db' = res.db
         /\ L' = [L EXCEPT ![p] = [@ EXCEPT !.call =
                    [op |-> "update_tender_field", id |-> ScriptTenderId,
                     field |-> "is_sent", value |-> ScriptSentValue,
                     raises |-> res.raises, affected |-> res.affected]]]
  /\ UNCHANGED <<runs, storeFails, chanFails, delivered, markFailed,
                 newQualified, prevUnsent, dispatcherRuns>>

NextScript ==
  \/ Next
  \/ \E p \in SeqProcs : DbMain(p)

SpecScript == InitScript /\ [][NextScript]_vars

TypeOK ==
  /\ \A i \in 1..Len(db) : db[i].state \in States /\ db[i].is_sent \in BOOLEAN
  /\ runs \in 0..MaxRuns

(***************************************************************************)
(* Properties                                                              *)
(***************************************************************************)
Ids == 1..Len(db)

DispatcherExecuted(p) == \E i \in 1..Len(L[p].stageLog) : L[p].stageLog[i] = "notifier"

InLoop(p) == L[p].pc \in {"tender_filter", "llm_invoke", "filter_write", "should_continue"}

InDispatcher(p) == L[p].pc \in {"notifier", "notify_send", "notify_mark"}

\* a classification round of p has just written its last record
RoundDone(p) == L[p].pc = "should_continue" /\ L[p].batch # << >>

CeilDiv(a, b) == (a + b - 1) \div b

KeyStored(d, title, posted_date) ==
  \E i \in 1..Len(d) : d[i].title = title /\ d[i].posted_date = posted_date

\* C1 (as stated): whatever fails, the channel delivers a message for a
\* record at most once.
C1_DeliveredAtMostOnce ==
  \A id \in DOMAIN delivered : delivered[id] <= 1

\* C1 (amended): a record is delivered once more only after the is_sent write
\* that follows a delivery has failed; a record whose is_sent is true has
\* been delivered exactly once plus once per failed write, and is never
\* delivered again.
C1_RedeliveryOnlyAfterFailedMark ==
  /\ \A id \in DOMAIN delivered : delivered[id] <= 1 + Count(markFailed, id)
  /\ \A id \in Ids : db[id].is_sent => Count(delivered, id) = 1 + Count(markFailed, id)

\* a second dispatcher run has ended and a record delivered by the first one
\* was not delivered again
C1_Witness ==
  /\ dispatcherRuns = 2
  /\ \E id \in Ids : db[id].is_sent /\ Count(delivered, id) = 1 /\ L[1].dispNo = 1
  /\ L[1].pc = "done"

\* C2 (as stated): a dispatcher run that follows one that fetched and went
\* through its records, with no record qualified in between, hands nothing
\* to the channel, whatever happened to the sends of the earlier run.
C2_SecondRunSendsNothing ==
  \A p \in Procs :
    (/\ DispatcherExecuted(p)
     /\ L[p].dispNo >= 1
     /\ L[p].unsentBefore.fetchOk
     /\ L[p].newAtFetch = {})
      => L[p].attempted = << >>

\* C2 (amended): such a run hands to the channel only records that the
\* earlier run left qualified with is_sent = false; if the earlier run left
\* none, it performs zero sends.
C2_SecondRunSendsOnlyUnsent ==
  \A p \in Procs :
    (DispatcherExecuted(p) /\ L[p].dispNo >= 1 /\ L[p].newAtFetch = {})
      => Range(L[p].attempted) \subseteq L[p].unsentBefore.ids

\* the second run found a delivered record and sent nothing
C2_Witness ==
  /\ DispatcherExecuted(1)
  /\ L[1].pc = "done"
  /\ L[1].dispNo = 1
  /\ L[1].newAtFetch = {}
  /\ L[1].unsentBefore.ids = {}
  /\ L[1].unsentBefore.fetchOk
  /\ L[1].attempted = << >>
  /\ \E id \in Ids : db[id].is_sent /\ db[id].state = "qualified"

\* C3: no two stored records share (title, posted_date); a candidate whose
\* normalised key is stored is passed over (no insert, no error, the loop
\* goes to the next candidate); a record is inserted only under a new key.
C3_NoDuplicateKeys ==
  \A i, j \in Ids : (i # j) => ~(db[i].title = db[j].title
                                 /\ db[i].posted_date = db[j].posted_date)

C3_DuplicateSkipped ==
  \A p \in Procs :
    LET tender == Normalise(Head(L[p].cands))
    IN  (/\ L[p].pc = "ingest_check"
         /\ KeyStored(db, tender.title, tender.posted_date)
         /\ storeFails' = storeFails)
        => /\ db' = db
           /\ L'[p].pc \in {"ingest_check", "tender_filter"}
           /\ L'[p].skipped = L[p].skipped + 1
           /\ L'[p].pc = "ingest_check" => L'[p].cands = Tail(L[p].cands)

C3_InsertOnlyNewKey ==
  Len(db') > Len(db) =>
    /\ Len(db') = Len(db) + 1
    /\ ~KeyStored(db, db'[Len(db')].title, db'[Len(db')].posted_date)

C3_Dedup ==
  /\ [] C3_NoDuplicateKeys
  /\ [][C3_DuplicateSkipped /\ C3_InsertOnlyNewKey]_vars

\* both candidates of a list were skipped: the store holds their keys
C3_Witness ==
  /\ L[1].skipped = 2
  /\ L[1].pc = "tender_filter"
  /\ Len(db) >= 1

C5_ClassifierContainment ==
  \A p \in Procs :
    (L[p].pc = "filter_write" \/ RoundDone(p)) =>
      /\ Len(db) = Len(L[p].dbAtFetch)
      /\ \A id \in Ids \ Range(L[p].batch) : db[id] = L[p].dbAtFetch[id]

\* the classifier returned the id of a stored record it was not shown
C5_Witness ==
  /\ RoundDone(1)
  /\ \E f \in (L[1].qualified \cap Ids) \ Range(L[1].batch) :
       db[f].state # "qualified"
  /\ \E id \in Range(L[1].batch) : db[id].state = "qualified"

C7_ClassifierFailure ==
  \A p \in Procs :
    L[p].llmFailed =>
      /\ L[p].pc = "aborted"
      /\ ~DispatcherExecuted(p)
      /\ \A id \in Range(L[p].batch) : db[id].state = "waiting_for_filtering"
      /\ db = L[p].dbAtFetch
      /\ \A id \in DOMAIN L[p].written : db[id].state = L[p].written[id]

\* the classifier failed on the second batch of a run
C7_Witness ==
  /\ L[1].llmFailed
  /\ L[1].rounds = 1
  /\ L[1].batch # << >>
  /\ \E id \in DOMAIN L[1].written : L[1].written[id] = "qualified"

C9_PerRecordIsolation ==
  \A p \in Procs :
    /\ \A id \in L[p].sendFailed : ~db[id].is_sent
    /\ L[p].sendFailed # {} => L[p].pc \in {"notify_send", "notify_mark", "done"}
    /\ L[p].pc \in {"notify_send", "notify_mark"} =>
         /\ Len(L[p].attempted) <= Len(L[p].fetched)
         /\ L[p].attempted = SubSeq(L[p].fetched, 1, Len(L[p].attempted))
         /\ L[p].notify # << >>
    /\ (L[p].pc = "done" /\ DispatcherExecuted(p)) => L[p].attempted = L[p].fetched

\* the first send of a run failed and a later record was delivered and marked
C9_Witness ==
  /\ L[1].pc = "done"
  /\ Len(L[1].fetched) >= 2
  /\ L[1].fetched[1] \in L[1].sendFailed
  /\ L[1].attempted = L[1].fetched
  /\ db[L[1].fetched[2]].is_sent
  /\ Count(delivered, L[1].fetched[2]) = 1

StageOrder == <<"scraper", "tender_filter", "notifier">>

C11_IngestionFailureIsolated ==
  \A p \in Procs :
    L[p].ingestErr # "none" =>
      /\ InLoop(p) \/ InDispatcher(p) \/ L[p].pc = "done"
            \/ (L[p].pc = "aborted" /\ L[p].llmFailed)
      /\ L[p].pc # "tender_filter" =>
            (Len(L[p].stageLog) >= 2 /\ L[p].stageLog[2] = "tender_filter")
      /\ L[p].stageLog[1] = "scraper"

\* the connector failed on an empty table and the loop ran and ended
C11_Witness ==
  /\ L[1].ingestErr = "connector"
  /\ db = << >>
  /\ L[1].pc = "notifier"
  /\ L[1].lastCount = 0

MissingCredentials(p) == ~L[p].env.token \/ ~L[p].env.chat_id

\* C12 (as stated): when the bot token or the chat id is missing the run does
\* not begin: no node executes, no record is created, no record's state
\* changes and no message is sent.
C12_MissingCredentialsFatal ==
  \A p \in SeqProcs :
    MissingCredentials(p) =>
      /\ L[p].stageLog = << >>
      /\ db \in {PrePop(w) : w \in InitWaiting}
      /\ delivered = << >>

\* C12, the part the code keeps: without the bot token no node executes and
\* the table is untouched; without the chat id no message is sent.
C12_MissingTokenFatal ==
  \A p \in SeqProcs :
    /\ ~L[p].env.token =>
         /\ L[p].stageLog = << >>
         /\ L[p].pc \in {"idle", "config_error"}
         /\ db \in {PrePop(w) : w \in InitWaiting}
    /\ MissingCredentials(p) => delivered = << >> /\ L[p].attempted = << >>

\* the canonical form YYYY-MM-DD: four, two and two digits, a calendar day
IsCanonicalYmd(s) ==
  /\ s # None
  /\ Len(s) = 10
  /\ \A i \in {1, 2, 3, 4, 6, 7, 9, 10} : s[i] \in Digits
  /\ s[5] = "-"
  /\ s[8] = "-"
  /\ StrptimeYmd(s)

\* C13 (as stated): every stored posted_date and closing_date is the empty
\* sentinel or a date in canonical YYYY-MM-DD form.
C13_StoredDatesCanonical ==
  \A i \in Ids :
    /\ db[i].posted_date = EmptyStr \/ IsCanonicalYmd(db[i].posted_date)
    /\ db[i].closing_date = EmptyStr \/ IsCanonicalYmd(db[i].closing_date)

\* C13, the part the code keeps: every stored date is the empty sentinel or
\* a string that strptime accepts for %Y-%m-%d, each of the two on its own.
C13_StoredDatesAccepted ==
  \A i \in Ids :
    /\ db[i].posted_date = EmptyStr \/ is_valid_date(db[i].posted_date)
    /\ db[i].closing_date = EmptyStr \/ is_valid_date(db[i].closing_date)

\* the ten field names update_field accepts
Whitelist == {"title", "organization", "posted_date", "closing_date", "location",
              "url", "source", "tender_content", "state", "is_sent"}

\* C14: a call of update_tender_field with a field name outside the whitelist
\* raises and leaves the table as it was, whatever id and value it names.
C14_FieldWhitelist ==
  [][\A p \in SeqProcs :
       (L'[p].call.op = "update_tender_field" /\ L'[p].call.field \notin Whitelist)
         => (L'[p].call.raises /\ ~L'[p].call.affected /\ db' = db)]_vars

\* update_tender_field(1, "not_a_field", "x") on a table that holds record 1
C14_Witness ==
  /\ L[1].call.op = "update_tender_field"
  /\ L[1].call.field = "not_a_field"
  /\ L[1].call.id = 1
  /\ L[1].call.raises
  /\ Len(db) >= 1
  /\ db[1].id = 1

\* C15: with invocations running one after another, every change of a
\* record's state goes from waiting_for_filtering to qualified or to
\* unqualified; a qualified or unqualified record keeps its state.
C15_StateMonotonic ==
  [][\A i \in 1..Len(db) :
       db'[i].state # db[i].state =>
         /\ db[i].state = "waiting_for_filtering"
         /\ db'[i].state \in {"qualified", "unqualified"}]_vars

\* a round of the second invocation has ended; records classified by the
\* first one, of both kinds, are as it left them
C15_Witness ==
  /\ runs = 2
  /\ RoundDone(1)
  /\ L[1].roundFailed = {}
  /\ \E id \in Ids \ Range(L[1].batch) : db[id].state = "qualified"
  /\ \E id \in Ids \ Range(L[1].batch) : db[id].state = "unqualified"

\* C16 (as stated): over any sequence of operations of the program, a
\* record's is_sent never goes from true to false.
C16_IsSentNeverReset ==
  [][\A i \in 1..Len(db) : db[i].is_sent => db'[i].is_sent]_vars

\* C16, the part the pipeline keeps: a record is created with is_sent = false
\* and main.py only ever writes true to it.
C16_PipelineNeverResets ==
  [][/\ \A i \in 1..Len(db) : db[i].is_sent => db'[i].is_sent
     /\ \A i \in (Len(db) + 1)..Len(db') : ~db'[i].is_sent]_vars

\* C17: no two records share an id; no call of a DB method removes a record
\* or changes the id of one; a new record gets an id that no record holds.
C17_UniqueIds ==
  \A i, j \in Ids : (i # j) => db[i].id # db[j].id

C17_RecordsKept ==
  /\ Len(db') >= Len(db)
  /\ \A i \in 1..Len(db) : db'[i].id = db[i].id
  /\ \A i \in (Len(db) + 1)..Len(db') : \A j \in 1..Len(db) : db'[i].id # db[j].id

C17_AppendOnly ==
  /\ [] C17_UniqueIds
  /\ [][C17_RecordsKept]_vars

\* a record was updated in two fields and another record was inserted after
\* it; a write to column id was refused on the way
C17_Witness ==
  /\ Len(db) >= 2
  /\ db[1].state = "qualified"
  /\ db[1].is_sent
  /\ L[1].call.op = "update_tender_field"
  /\ L[1].call.field = "id"
  /\ L[1].call.id = db[2].id
  /\ L[1].call.raises

SameKey(r1, r2) == r1.title = r2.title /\ r1.posted_date = r2.posted_date

\* C18: with two overlapping invocations every store operation is atomic
\* (a record is inserted only after a tender_exists query that found no
\* record with its key among the rows the table had then), but the query and
\* the insert are two steps: a stored record with the same key was inserted
\* between the two, by the other invocation.  The witness is the reachable
\* state with two records of one key.
C18_DuplicatesOnlyByRace ==
  /\ \A p \in Procs : \A k \in 1..Len(L[p].inserted) :
       LET e == L[p].inserted[k]
       IN  /\ e.id \in Ids
           /\ \A i \in 1..e.checkLen : ~SameKey(db[i], db[e.id])
           /\ \A m \in 1..Len(L[p].inserted) :
                (m # k) => ~SameKey(db[L[p].inserted[m].id], db[e.id])
  /\ \A i, j \in Ids :
       (i < j /\ SameKey(db[i], db[j])) =>
         \E p, q \in Procs :
           /\ p # q
           /\ \E k \in 1..Len(L[p].inserted) : L[p].inserted[k].id = i
           /\ \E k \in 1..Len(L[q].inserted) :
                L[q].inserted[k].id = j /\ L[q].inserted[k].checkLen < i

\* both invocations inserted a record with the same title and posted_date
C18_Witness ==
  \E i, j \in Ids :
    /\ i # j
    /\ SameKey(db[i], db[j])
    /\ \E k \in 1..Len(L[1].inserted) : L[1].inserted[k].id = i
    /\ \E k \in 1..Len(L[2].inserted) : L[2].inserted[k].id = j

NoFailureSoFar(p) == storeFails + chanFails = L[p].failsAtStart

\* C21: when an invocation in which the classifier, the store and the channel
\* never failed has completed, no record is waiting_for_filtering and every
\* qualified record has is_sent = true.
C21_DrainToCompletion ==
  \A p \in Procs :
    (L[p].pc = "done" /\ ~L[p].llmFailed /\ NoFailureSoFar(p)) =>
      /\ Waiting(db) = {}
      /\ \A id \in Ids : db[id].state = "qualified" => db[id].is_sent

\* an invocation without failure drained more than one batch and delivered
\* what it qualified
C21_Witness ==
  /\ L[1].pc = "done"
  /\ NoFailureSoFar(1)
  /\ L[1].rounds >= 2
  /\ L[1].attempted # << >>
  /\ Waiting(db) = {}
  /\ \E id \in Ids : db[id].state = "qualified" /\ db[id].is_sent
  /\ \E id \in Ids : db[id].state = "unqualified"

\* ids of the rows the table can come to hold when invocations do not
\* overlap: one row for each scraped candidate at most
LiveIds == 1..4

\* the records whose send failed in the dispatcher run before that of p
FailedBefore(p) == L[p].unsentBefore.failed

\* the dispatcher run of p is over
DispatcherOver(p) == L[p].pc = "done" /\ DispatcherExecuted(p)

QualifiedEventuallySent ==
  \A id \in LiveIds :
    (id \in Ids /\ db[id].state = "qualified") ~> (id \in Ids /\ db[id].is_sent)

\* C22 (as stated): a qualified record whose send failed keeps is_sent =
\* false and is attempted by the dispatcher of the next invocation that
\* reaches the notification stage; if the classifier never fails and the
\* channel stops failing, every qualified record eventually has is_sent = true.
C22_RetriedByNextInvocation ==
  /\ [](prevUnsent.failed \subseteq prevUnsent.ids)
  /\ [](\A p \in SeqProcs :
          DispatcherOver(p) => FailedBefore(p) \subseteq Range(L[p].attempted))
  /\ (<>[](chanFails = 0)) => QualifiedEventuallySent

\* C22 (amended): the record keeps is_sent = false and is attempted by the
\* next dispatcher run whose fetch returns; if the classifier never fails and
\* both the channel and the store stop failing, every qualified record
\* eventually has is_sent = true.
C22_RetriedWhenStoreAnswers ==
  /\ [](prevUnsent.failed \subseteq prevUnsent.ids)
  /\ [](\A p \in SeqProcs :
          (DispatcherOver(p) /\ prevUnsent.fetchOk) =>
             FailedBefore(p) \subseteq Range(L[p].attempted))
  /\ (<>[](chanFails = 0 /\ storeFails = 0)) => QualifiedEventuallySent

\* a record whose send failed in the run before was delivered and marked
C22_Witness ==
  /\ DispatcherOver(1)
  /\ FailedBefore(1) # {}
  /\ \A id \in FailedBefore(1) : Count(delivered, id) = 1 /\ db[id].is_sent

\* the channel has just delivered id and mark_tender_as_sent has not run yet
MarkPending(id) ==
  \E p \in Procs : L[p].pc = "notify_mark" /\ Head(L[p].notify) = id

\* is_sent of a stored record goes from false to true only in the step that
\* follows a successful send of that record in the running dispatcher
SentOnlyAfterOwnSend ==
  \A id \in Ids :
    (~db[id].is_sent /\ db'[id].is_sent) =>
      \E p \in Procs : /\ L[p].pc = "notify_mark"
                       /\ Head(L[p].notify) = id
                       /\ id \in Range(L[p].attempted) \ L[p].sendFailed

\* C23 (as stated): once the channel has reported a successful send of a
\* record and the dispatcher has gone on, the record's is_sent is true in the
\* store; and is_sent becomes true only after a successful send of that
\* record in the same dispatcher run.
C23_SentExactlyOnSuccess ==
  /\ [](\A id \in Ids :
          (Count(delivered, id) >= 1 /\ ~MarkPending(id)) => db[id].is_sent)
  /\ [](\A id \in Ids : db[id].is_sent => Count(delivered, id) >= 1)
  /\ [][SentOnlyAfterOwnSend]_vars

\* C23 (amended): the same, for every successful send whose is_sent write
\* did not raise; a record stays unsent after deliveries only if the write
\* failed after each of them.
C23_SentOnSuccessUnlessWriteFailed ==
  /\ [](\A id \in Ids :
          (Count(delivered, id) > Count(markFailed, id) /\ ~MarkPending(id))
             => db[id].is_sent)
  /\ [](\A id \in Ids : db[id].is_sent => Count(delivered, id) >= 1)
  /\ [][SentOnlyAfterOwnSend]_vars

\* a run in which one send failed and another succeeded: only the record
\* that was delivered has is_sent = true
C23_Witness ==
  /\ L[1].pc = "done"
  /\ \E id \in Range(L[1].attempted) :
        Count(delivered, id) = 1 /\ Count(markFailed, id) = 0 /\ db[id].is_sent
  /\ \E id \in L[1].sendFailed : Count(delivered, id) = 0 /\ ~db[id].is_sent

\* C24: a failure while one candidate is processed (tender_exists or
\* insert_new_tender raises for it) leaves no later candidate of the same
\* scraped list unprocessed.
C24_PerItemIngestionIsolation ==
  \A p \in Procs :
    L[p].ingestErr \in {"tender_exists", "insert_new_tender"} =>
      L[p].abandoned = << >>

\* C25: whenever the classifier is invoked its batch holds between 1 and 8
\* records, no record twice, and each of them was waiting_for_filtering in
\* the table the batch was fetched from.
C25_BatchOfOneToEight ==
  \A p \in Procs :
    L[p].pc = "llm_invoke" =>
      /\ Len(L[p].batch) >= 1
      /\ Len(L[p].batch) <= 8
      /\ Cardinality(Range(L[p].batch)) = Len(L[p].batch)
      /\ \A id \in Range(L[p].batch) :
            RowOf(L[p].dbAtFetch, id).state = "waiting_for_filtering"

\* the classifier is invoked with a full batch while more records wait, and
\* later with the single record that is left
C25_Witness ==
  /\ L[1].pc = "llm_invoke"
  /\ Len(L[1].batch) = 1
  /\ L[1].rounds = 1
  /\ L[1].W0 = 9
  /\ Cardinality(DOMAIN L[1].submitted) = 8

\* the dispatcher's fetch returns each record that is qualified with
\* is_sent = false once, and a fetch that raises returns nothing
FetchesQualifiedUnsent ==
  \A p \in Procs :
    (L[p].pc = "notifier" /\ L'[p].pc # "notifier") =>
      IF storeFails' = storeFails
      THEN /\ Range(L'[p].fetched) = QualifiedUnsent(db)
           /\ Len(L'[p].fetched) = Cardinality(QualifiedUnsent(db))
      ELSE L'[p].fetched = << >>

\* a step hands at most one record to the channel: the next of the fetched
\* list, which is qualified with is_sent = false at that moment
SendsNextFetched ==
  \A p \in Procs :
    (L'[p].attempted # L[p].attempted /\ L'[p].attempted # << >>) =>
      /\ L[p].pc = "notify_send"
      /\ Len(L[p].attempted) < Len(L[p].fetched)
      /\ L'[p].attempted =
           Append(L[p].attempted, L[p].fetched[Len(L[p].attempted) + 1])
      /\ LET id == L[p].fetched[Len(L[p].attempted) + 1]
         IN  db[id].state = "qualified" /\ ~db[id].is_sent

\* the fetched list is in descending order of posted_date
FetchedNewestFirst(p) ==
  \A i, j \in 1..Len(L[p].fetched) :
    i < j => ~StrLess(RowOf(db, L[p].fetched[i]).posted_date,
                      RowOf(db, L[p].fetched[j]).posted_date)

\* C26: the dispatcher hands to the channel exactly the records its fetch
\* returned, which are the records with state = qualified and is_sent =
\* false at the fetch, one per step and newest posted_date first; a record
\* that is waiting_for_filtering, unqualified or already sent is never
\* handed to the channel.
C26_SendsExactlyQualifiedUnsent ==
  /\ [][FetchesQualifiedUnsent /\ SendsNextFetched]_vars
  /\ [](\A p \in Procs :
          /\ FetchedNewestFirst(p)
          /\ (L[p].pc = "done" /\ DispatcherExecuted(p)) =>
                L[p].attempted = L[p].fetched)

\* a run that fetched two records with different posted dates and handed
\* both to the channel, the newer one first
C26_Witness ==
  /\ L[1].pc = "done"
  /\ Len(L[1].fetched) = 2
  /\ L[1].attempted = L[1].fetched
  /\ StrLess(RowOf(db, L[1].fetched[2]).posted_date,
             RowOf(db, L[1].fetched[1]).posted_date)
  /\ \E id \in Ids : db[id].state = "unqualified"

\* C27: the state of every record is waiting_for_filtering, qualified or
\* unqualified, never notified; a record that was notified is a qualified
\* record with is_sent = true.
C27_NeverNotified ==
  \A id \in Ids :
    /\ db[id].state \in {"waiting_for_filtering", "qualified", "unqualified"}
    /\ db[id].is_sent \in BOOLEAN
    /\ Count(delivered, id) >= 1 => db[id].state = "qualified"

\* a record was delivered and marked: its state is still qualified
C27_Witness ==
  /\ L[1].pc = "done"
  /\ \E id \in Ids : /\ Count(delivered, id) = 1
                      /\ db[id].is_sent
                      /\ db[id].state = "qualified"
                      /\ id \in Range(L[1].attempted)

\* the step keeps every row and changes at most the given field of a row
ChangesOnly(field) ==
  /\ Len(db') = Len(db)
  /\ \A i \in 1..Len(db) :
       \A f \in RowFields \ {field} : db'[i][f] = db[i][f]

\* C28: a step of the Batch Classification Loop changes no field of any
\* record but state, and a step of the Notification Dispatcher changes no
\* field of any record but is_sent.
C28_StageWriteConfinement ==
  [][\A p \in SeqProcs :
       /\ InLoop(p) => ChangesOnly("state")
       /\ InDispatcher(p) => ChangesOnly("is_sent")]_vars

\* an invocation that found nine records waiting: its loop wrote both
\* states and its dispatcher marked a record
C28_Witness ==
  /\ L[1].pc = "done"
  /\ \E id \in DOMAIN L[1].written : L[1].written[id] = "qualified"
  /\ \E id \in DOMAIN L[1].written : L[1].written[id] = "unqualified"
  /\ \E id \in Range(L[1].attempted) : db[id].is_sent
  /\ L[1].W0 = 9

InIngestion(p) == L[p].pc \in {"scraper", "ingest_check", "ingest_insert"}

\* C29: a step of the Ingestion Gate leaves every stored record as it is,
\* and each record it adds has state = waiting_for_filtering and
\* is_sent = false.
C29_IngestionInsertOnly ==
  [][\A p \in SeqProcs :
       InIngestion(p) =>
         /\ Len(db') >= Len(db)
         /\ \A i \in 1..Len(db) : db'[i] = db[i]
         /\ \A i \in (Len(db) + 1)..Len(db') :
              /\ db'[i].state = "waiting_for_filtering"
              /\ db'[i].is_sent = FALSE]_vars

\* the gate of a second invocation has inserted one candidate and skipped
\* one, and a record marked by the first invocation is still there
C29_Witness ==
  /\ runs = 2
  /\ L[1].pc = "tender_filter"
  /\ Len(L[1].inserted) = 1
  /\ L[1].skipped = 1
  /\ db[L[1].inserted[1].id].state = "waiting_for_filtering"
  /\ ~db[L[1].inserted[1].id].is_sent
  /\ \E id \in Ids : db[id].state = "qualified" /\ db[id].is_sent

StoredIds == {db[i].id : i \in 1..Len(db)}

\* update_tender_field returned true and wrote the value to the named column
\* of the record with the given id, and to nothing else
UpdatedOneField(c) ==
  /\ ~c.raises
  /\ c.affected
  /\ Len(db') = Len(db)
  /\ \A i \in 1..Len(db) :
       IF db[i].id = c.id
       THEN /\ \A f \in RowFields \ {c.field} : db'[i][f] = db[i][f]
            /\ c.field \in RowFields => db'[i][c.field] = c.value
       ELSE db'[i] = db[i]

\* update_tender_field returned false and wrote nothing
UpdatedNothing(c) == ~c.raises /\ ~c.affected /\ db' = db

\* C30 (as stated): update_tender_field with a whitelisted field returns
\* false and changes no record if no record has the id; if one has, it
\* returns true and changes only the named field of that record.
C30_UpdateFieldContract ==
  [][\A p \in SeqProcs :
       LET c == L'[p].call
       IN  (c.op = "update_tender_field" /\ c.field \in Whitelist) =>
             IF c.id \in StoredIds THEN UpdatedOneField(c) ELSE UpdatedNothing(c)]_vars

\* C30 (amended): the same for a value the table accepts; with a stored id
\* and a value that breaks a constraint of the table (a state outside the
\* four of the CHECK, a NULL title) the call raises and changes no record.
C30_UpdateFieldContractForAcceptedValues ==
  [][\A p \in SeqProcs :
       LET c == L'[p].call
       IN  (c.op = "update_tender_field" /\ c.field \in Whitelist) =>
             IF c.id \notin StoredIds THEN UpdatedNothing(c)
             ELSE IF TableRejects(c.field, c.value)
                  THEN c.raises /\ ~c.affected /\ db' = db
                  ELSE UpdatedOneField(c)]_vars

\* is_sent of record 2 was written on a table of two records, and record 1
\* is as it was inserted
C30_Witness ==
  /\ L[1].call.op = "update_tender_field"
  /\ L[1].call.field = "is_sent"
  /\ L[1].call.id = 2
  /\ L[1].call.value = TRUE
  /\ L[1].call.affected
  /\ Len(db) = 2
  /\ db[2].is_sent
  /\ ~db[1].is_sent

\* C31: with invocations running one after another, every record with
\* is_sent = true has state = qualified, in every state: no waiting or
\* unqualified record is marked sent and no sent record leaves qualified.
C31_SentImpliesQualified ==
  \A id \in Ids : db[id].is_sent => db[id].state = "qualified"

\* a second invocation has classified and ended; a record sent by the first
\* one is still qualified and sent
C31_Witness ==
  /\ runs = 2
  /\ L[1].pc = "done"
  /\ L[1].written # << >>
  /\ \E id \in Ids \ Range(L[1].attempted) :
        db[id].is_sent /\ db[id].state = "qualified"
  /\ \E id \in Ids : db[id].state = "unqualified" /\ ~db[id].is_sent

\* the store holds a record with this title and the empty posted_date
EmptyKeyStored(title) ==
  \E i \in 1..Len(db) : db[i].title = title /\ db[i].posted_date = EmptyStr

\* the existence check of a candidate whose posted_date is missing or
\* invalid is made with the key (title, ''): the candidate is skipped if the
\* store holds that key, and otherwise goes to the insert with posted_date ''
InvalidDateCheckedAsEmpty ==
  \A p \in SeqProcs :
    LET raw == Head(L[p].cands)
    IN  (/\ L[p].pc = "ingest_check"
         /\ ~is_valid_date(raw.posted_date)
         /\ storeFails' = storeFails)
        => IF EmptyKeyStored(raw.title)
           THEN /\ db' = db
                /\ L'[p].skipped = L[p].skipped + 1
                /\ L'[p].inserted = L[p].inserted
           ELSE /\ L'[p].pc = "ingest_insert"
                /\ Head(L'[p].cands).title = raw.title
                /\ Head(L'[p].cands).posted_date = EmptyStr

\* C32: candidates with the same title whose posted_date is missing or
\* invalid, whatever the raw values, are checked under the one key
\* (title, ''): the store never holds two records with that key, and a
\* candidate that finds it stored is skipped.
C32_InvalidDatesShareKey ==
  /\ [](\A i, j \in Ids :
          (/\ db[i].title = db[j].title
           /\ db[i].posted_date = EmptyStr
           /\ db[j].posted_date = EmptyStr) => i = j)
  /\ [](\A i \in Ids :
          db[i].posted_date = EmptyStr \/ is_valid_date(db[i].posted_date))
  /\ [][InvalidDateCheckedAsEmpty]_vars

\* of two candidates titled Road works, one with posted_date 'tomorrow' and
\* one without posted_date, the first was stored under ('Road works', '')
\* and the second was skipped
C32_Witness ==
  /\ runs = 1
  /\ L[1].pc = "tender_filter"
  /\ L[1].ingestErr = "none"
  /\ Len(L[1].inserted) = 1
  /\ L[1].skipped = 1
  /\ Len(db) = 1
  /\ db[1].title = "Road works"
  /\ db[1].posted_date = EmptyStr

\* a dispatcher's fetch returns only records that are qualified and not
\* marked sent at the moment of the fetch
FetchesOnlyUnsent ==
  \A p \in Procs :
    (L[p].pc = "notifier" /\ L'[p].pc # "notifier") =>
      Range(L'[p].fetched) \subseteq QualifiedUnsent(db)

\* C33: with two overlapping invocations whose store and channel never fail,
\* each dispatcher delivers a record at most once, and a record is delivered
\* twice only when both dispatchers fetched it, each while it was not yet
\* marked sent.  The witness is the reachable state in which one record was
\* delivered twice.
C33_TwiceOnlyByOverlappingFetch ==
  /\ [](\A id \in DOMAIN delivered :
          /\ delivered[id] <= Cardinality({p \in Procs : id \in Range(L[p].attempted)})
          /\ delivered[id] >= 2 =>
                \A p \in Procs : id \in Range(L[p].fetched))
  /\ [](\A p \in Procs :
          Cardinality(Range(L[p].attempted)) = Len(L[p].attempted))
  /\ [][FetchesOnlyUnsent]_vars

\* both dispatchers fetched the record before either marked it, and the
\* channel delivered it for each of them
C33_Witness ==
  \E id \in Ids :
    /\ Count(delivered, id) = 2
    /\ id \in Range(L[1].attempted)
    /\ id \in Range(L[2].attempted)
    /\ db[id].is_sent
    /\ L[1].pc = "done"
    /\ L[2].pc = "done"

Classified == {"qualified", "unqualified"}

\* C34 (as stated): with two overlapping invocations a record that is
\* qualified or unqualified keeps its state in every step, and no record is
\* unqualified with is_sent = true.
C34_ClassifiedStateKept ==
  /\ [][\A i \in 1..Len(db) :
          db[i].state \in Classified => db'[i].state = db[i].state]_vars
  /\ [](\A id \in Ids : ~(db[id].state = "unqualified" /\ db[id].is_sent))

\* C34 (amended): with two overlapping invocations a state is written only
\* by a loop whose batch holds the record, fetched while the record was
\* waiting_for_filtering, and the state written is qualified or unqualified;
\* so no record returns to waiting_for_filtering, and a classified record
\* changes state only through the write of an invocation that had fetched
\* it before it was classified.
C34_RewrittenOnlyByStaleBatch ==
  [][\A i \in 1..Len(db) :
       db'[i].state # db[i].state =>
         /\ db'[i].state \in Classified
         /\ \E p \in Procs :
              /\ L[p].pc = "filter_write"
              /\ Head(L[p].todo) = db[i].id
              /\ db[i].id \in Range(L[p].batch)
              /\ RowOf(L[p].dbAtFetch, db[i].id).state = "waiting_for_filtering"]_vars

\* both loops fetched the record while it was waiting; the first wrote
\* qualified and its dispatcher marked the record, then the second wrote
\* unqualified
C34_Witness ==
  \E id \in Ids :
    /\ id \in DOMAIN L[1].written
    /\ id \in DOMAIN L[2].written
    /\ L[1].written[id] = "qualified"
    /\ L[2].written[id] = "unqualified"
    /\ db[id].state = "unqualified"
    /\ db[id].is_sent
=============================================================================
